---- MODULE Spec2Model ----
(***************************************************************************)
(* Model of pkg/notifier/slacknotifier/slack.go: the Slack notifier's      *)
(* argument partitioning and the bybit websocket event types (envelope     *)
(* discrimination, op acknowledgement validation, topic key codec,         *)
(* order book and k-line adapters).                                        *)
(*                                                                         *)
(* Every function of the file is a stateless transformation, so the state  *)
(* of the model is the frame of the most recent call: which function ran   *)
(* (fn), what it was given (args) and what it produced (ret).              *)
(*                                                                         *)
(* Go strings that the code only compares are TLA+ strings; Go strings     *)
(* that the code splits or joins are sequences of one-character strings.   *)
(***************************************************************************)
EXTENDS Integers, Sequences, FiniteSets, TLC

VARIABLES fn, args, ret

vars == <<fn, args, ret>>

----------------------------------------------------------------------------
(* Bounds of the explored inputs *)

MaxTopicLen == 4

MaxParts == 3

MaxIntArg == 10

MaxPrice == 1

MaxLevels == 2

MaxArgs == 3

----------------------------------------------------------------------------
(* Generic helpers *)

\* all sequences over S of length 0..n
SeqsUpTo(S, n) == UNION {[1..k -> S] : k \in 0..n}

\* a Go pointer is modelled as a sequence of zero (nil) or one element
Nil == <<>>

Ptr(v) == <<v>>

----------------------------------------------------------------------------
(* WsEvent: the envelope and its discriminators *)

IsOp_noTopicCheck(w) == w.WebSocketOpEvent # Nil

IsOp(w) == w.WebSocketOpEvent # Nil /\ w.WebSocketTopicEvent = Nil

IsTopic_noOpCheck(w) == w.WebSocketTopicEvent # Nil

IsTopic(w) == w.WebSocketOpEvent = Nil /\ w.WebSocketTopicEvent # Nil

----------------------------------------------------------------------------
(* WebSocketOpEvent.IsValid *)

WsOpTypePing == "ping"

WsOpTypePong == "pong"

WsOpTypeAuth == "auth"

WsOpTypeSubscribe == "subscribe"

ErrNil == "nil"

ErrUnexpectedResult == "unexpected response result"

ErrUnexpectedOpType == "unexpected op type"

OpValues == {WsOpTypePing, WsOpTypePong, WsOpTypeAuth, WsOpTypeSubscribe, "unsubscribe", ""}

RetMsgValues == {"", "pong", "subscribe", "wrong"}

WebSocketOpEvent == [Success : BOOLEAN, RetMsg : RetMsgValues, Op : OpValues]

IsValid_pingIgnoresRetMsg(w) ==
    CASE w.Op = WsOpTypePing ->
            IF ~w.Success THEN ErrUnexpectedResult ELSE ErrNil
      [] w.Op = WsOpTypePong -> ErrNil
      [] w.Op = WsOpTypeAuth ->
            IF ~w.Success THEN ErrUnexpectedResult ELSE ErrNil
      [] w.Op = WsOpTypeSubscribe ->
            IF ~w.Success THEN ErrUnexpectedResult ELSE ErrNil
      [] OTHER -> ErrNil

IsValid_subscribeChecksRetMsg(w) ==
    CASE w.Op = WsOpTypePing ->
            IF ~w.Success \/ w.RetMsg # WsOpTypePong THEN ErrUnexpectedResult ELSE ErrNil
      [] w.Op = WsOpTypePong ->
            IF ~w.Success THEN ErrUnexpectedResult ELSE ErrNil
      [] w.Op = WsOpTypeAuth ->
            IF ~w.Success \/ w.RetMsg # "" THEN ErrUnexpectedResult ELSE ErrNil
      [] w.Op = WsOpTypeSubscribe ->
            IF ~w.Success \/ w.RetMsg # WsOpTypeSubscribe THEN ErrUnexpectedResult ELSE ErrNil
      [] OTHER -> ErrUnexpectedOpType

IsValid(w) ==
    CASE w.Op = WsOpTypePing ->
            IF ~w.Success \/ w.RetMsg # WsOpTypePong THEN ErrUnexpectedResult ELSE ErrNil
      [] w.Op = WsOpTypePong -> ErrNil
      [] w.Op = WsOpTypeAuth ->
            IF ~w.Success \/ w.RetMsg # "" THEN ErrUnexpectedResult ELSE ErrNil
      [] w.Op = WsOpTypeSubscribe ->
            IF ~w.Success THEN ErrUnexpectedResult ELSE ErrNil
      [] OTHER -> ErrUnexpectedOpType

----------------------------------------------------------------------------
(* Topic key codec: genTopic, getTopicType, getSymbolFromTopic *)

topicSeparator == "."

Letters == {"a", "b"}

TopicChars == Letters \cup {topicSeparator}

Digits == <<"0", "1", "2", "3", "4", "5", "6", "7", "8", "9">>

\* strconv-style decimal rendering of a non-negative integer
RECURSIVE FormatNat(_)
FormatNat(n) ==
    IF n < 10 THEN <<Digits[n + 1]>>
    ELSE FormatNat(n \div 10) \o <<Digits[(n % 10) + 1]>>

\* fmt.Sprintf("%v", v) for the argument kinds genTopic is given:
\* a string renders as itself, an integer in decimal with a leading "-"
\* when negative
SprintfV(v) ==
    IF v.kind = "string" THEN v.val
    ELSE IF v.val < 0 THEN <<"-">> \o FormatNat(0 - v.val)
    ELSE FormatNat(v.val)

\* strings.Index(s, sep) for a one-character sep: the 1-based position of
\* the first occurrence, 0 when there is none
Index(s, sep) ==
    IF \E i \in 1..Len(s) : s[i] = sep
    THEN CHOOSE i \in 1..Len(s) : s[i] = sep /\ \A j \in 1..(i - 1) : s[j] # sep
    ELSE 0

\* strings.Split(s, sep) for a one-character sep
RECURSIVE Split(_, _)
Split(s, sep) ==
    LET m == Index(s, sep) IN
    IF m = 0 THEN <<s>>
    ELSE <<SubSeq(s, 1, m - 1)>> \o Split(SubSeq(s, m + 1, Len(s)), sep)

\* strings.Join(elems, sep)
RECURSIVE Join(_, _)
Join(elems, sep) ==
    IF Len(elems) = 0 THEN <<>>
    ELSE IF Len(elems) = 1 THEN elems[1]
    ELSE elems[1] \o <<sep>> \o Join(Tail(elems), sep)

genTopic_noSeparator(in) ==
    LET out == [k \in 1..Len(in) |-> SprintfV(in[k])] IN
    Join(out, "a")

genTopic(in) ==
    LET out == [k \in 1..Len(in) |-> SprintfV(in[k])] IN
    Join(out, topicSeparator)

getTopicType_lastSegment(topic) ==
    LET slice == Split(topic, topicSeparator) IN
    IF Len(slice) = 0 THEN <<>>
    ELSE slice[Len(slice)]

getTopicType(topic) ==
    LET slice == Split(topic, topicSeparator) IN
    IF Len(slice) = 0 THEN <<>>
    ELSE slice[1]

getSymbolFromTopic_atLeast3(topic) ==
    LET slice == Split(topic, topicSeparator) IN
    IF Len(slice) < 3 THEN [symbol |-> <<>>, err |-> "unexpected topic"]
    ELSE [symbol |-> slice[3], err |-> ErrNil]

getSymbolFromTopic(topic) ==
    LET slice == Split(topic, topicSeparator) IN
    IF Len(slice) # 3 THEN [symbol |-> <<>>, err |-> "unexpected topic"]
    ELSE [symbol |-> slice[3], err |-> ErrNil]

\* topic strings handed to the parsers
Topics == SeqsUpTo(TopicChars, MaxTopicLen)

\* values handed to genTopic: short strings (some holding the separator)
\* and integers
PartValues ==
    {[kind |-> "string", val |-> s] : s \in SeqsUpTo(TopicChars, 1)}
        \cup {[kind |-> "int", val |-> n] : n \in {0 - 1, 0, MaxIntArg}}

----------------------------------------------------------------------------
(* WebSocketTopicEvent, WsEvent values and the frame decoder *)

DataTypeSnapshot == "snapshot"

DataTypeDelta == "delta"

WebSocketTopicEvent ==
    [Topic : {<<"a", ".", "a", ".", "b">>, <<"a">>},
     Type  : {DataTypeSnapshot, DataTypeDelta}]

\* every combination of the two embedded pointers being nil or set
WsEvent ==
    [WebSocketOpEvent    : {Nil} \cup {Ptr(e) : e \in WebSocketOpEvent},
     WebSocketTopicEvent : {Nil} \cup {Ptr(t) : t \in WebSocketTopicEvent}]

ErrMalformedEnvelope == "MalformedEnvelopeError"

\* A raw frame carries op-shaped fields, topic-shaped fields, both or
\* neither.  Both interpretations are attempted; the envelope is handed out
\* only when exactly one of them is populated.
RawFrame ==
    [opShape    : {Nil} \cup {Ptr(e) : e \in WebSocketOpEvent},
     topicShape : {Nil} \cup {Ptr(t) : t \in WebSocketTopicEvent}]

parseWebSocketEvent(frame) ==
    LET e == [WebSocketOpEvent    |-> frame.opShape,
              WebSocketTopicEvent |-> frame.topicShape] IN
    IF IsOp(e) \/ IsTopic(e)
    THEN [event |-> Ptr(e), err |-> ErrNil]
    ELSE [event |-> Nil, err |-> ErrMalformedEnvelope]

----------------------------------------------------------------------------
(* BookEvent.OrderBook *)

PriceVolume == [Price : 1..(MaxPrice + 1), Volume : {1}]

PriceVolumeSlice == SeqsUpTo(PriceVolume, MaxLevels)

BookEvent ==
    [Symbol     : {"BTCUSDT", "ETHUSDT"},
     Bids       : PriceVolumeSlice,
     Asks       : PriceVolumeSlice,
     UpdateId   : {1, 2},
     SequenceId : {7},
     Type       : {DataTypeSnapshot, DataTypeDelta}]

\* the result pairs the returned snapshot with the receiver as the call
\* leaves it
OrderBook_swapsSides(e) ==
    [snapshot |-> [Symbol |-> e.Symbol, Bids |-> e.Asks, Asks |-> e.Bids],
     e        |-> e]

OrderBook(e) ==
    [snapshot |-> [Symbol |-> e.Symbol, Bids |-> e.Bids, Asks |-> e.Asks],
     e        |-> e]

----------------------------------------------------------------------------
(* KLine.toGlobalKLine *)

\* bybitapi.ToGlobalInterval: exchange interval code -> types.Interval
ToGlobalInterval ==
    [code \in {"1", "5", "60", "D"} |->
        CASE code = "1"  -> "1m"
          [] code = "5"  -> "5m"
          [] code = "60" -> "1h"
          [] code = "D"  -> "1d"]

\* types.MillisecondTimestamp.Time() followed by types.Time(): epoch
\* milliseconds to a (seconds, nanoseconds) time value
MsToTime(ms) ==
    [isZero |-> FALSE, sec |-> ms \div 1000, nsec |-> (ms % 1000) * 1000000]

ZeroTime == [isZero |-> TRUE, sec |-> 0, nsec |-> 0]

ExchangeBybit == "bybit"

\* types.KLine{}: every field at its zero value
ZeroKLine ==
    [Exchange |-> "", Symbol |-> "", StartTime |-> ZeroTime, EndTime |-> ZeroTime,
     Interval |-> "", Open |-> 0, Close |-> 0, High |-> 0, Low |-> 0,
     Volume |-> 0, QuoteVolume |-> 0, Closed |-> FALSE]

ErrUnexpectedInterval == "unexpected k line interval"

KLine ==
    [StartTime  : {0, 1500},
     EndTime    : {59999},
     Interval   : {"1", "D", "7", ""},
     OpenPrice  : 0..MaxPrice,
     ClosePrice : 0..MaxPrice,
     HighPrice  : 0..MaxPrice,
     LowPrice   : 0..MaxPrice,
     Volume     : 0..MaxPrice,
     Turnover   : 0..MaxPrice,
     Confirm    : BOOLEAN]

GlobalKLine(k, symbol, interval) ==
    [Exchange    |-> ExchangeBybit,
     Symbol      |-> symbol,
     StartTime   |-> MsToTime(k.StartTime),
     EndTime     |-> MsToTime(k.EndTime),
     Interval    |-> interval,
     Open        |-> k.OpenPrice,
     Close       |-> k.ClosePrice,
     High        |-> k.HighPrice,
     Low         |-> k.LowPrice,
     Volume      |-> k.Volume,
     QuoteVolume |-> k.Turnover,
     Closed      |-> k.Confirm]

toGlobalKLine_partialOnError(k, symbol) ==
    LET found == k.Interval \in DOMAIN ToGlobalInterval IN
    IF ~found
    THEN [kline |-> GlobalKLine(k, symbol, ""), err |-> ErrUnexpectedInterval]
    ELSE [kline |-> GlobalKLine(k, symbol, ToGlobalInterval[k.Interval]),
          err   |-> ErrNil]

toGlobalKLine(k, symbol) ==
    LET found == k.Interval \in DOMAIN ToGlobalInterval IN
    IF ~found
    THEN [kline |-> ZeroKLine, err |-> ErrUnexpectedInterval]
    ELSE [kline |-> GlobalKLine(k, symbol, ToGlobalInterval[k.Interval]),
          err   |-> ErrNil]

----------------------------------------------------------------------------
(* Notifier.Notify *)

\* the dynamic types Notify's type switch tells apart: slack.Attachment,
\* a SlackAttachmentCreator, and everything else (here "plain" values and
\* the nil interface)
ArgValues ==
    {[kind |-> "plain", id |-> 1], [kind |-> "plain", id |-> 2],
     [kind |-> "nil", id |-> 0],
     [kind |-> "Attachment", id |-> 1],
     [kind |-> "Creator", id |-> 2]}

\* a.SlackAttachment(): the attachment a creator renders
SlackAttachment(a) == [kind |-> "Attachment", id |-> 10 + a.id]

\* the range loop of Notify: idx and slackArgsOffset are 0-based as in Go,
\* slackArgsOffset = -1 while no attachment-like argument has been seen
RECURSIVE NotifyLoop(_, _, _, _)
NotifyLoop(a, idx, slackArgsOffset, slackAttachments) ==
    IF idx >= Len(a)
    THEN [slackArgsOffset |-> slackArgsOffset, slackAttachments |-> slackAttachments]
    ELSE LET arg == a[idx + 1]
             offset == IF slackArgsOffset = 0 - 1 THEN idx ELSE slackArgsOffset
         IN  CASE arg.kind = "Attachment" ->
                    NotifyLoop(a, idx + 1, offset, Append(slackAttachments, arg))
               [] arg.kind = "Creator" ->
                    NotifyLoop(a, idx + 1, offset,
                               Append(slackAttachments, SlackAttachment(arg)))
               [] OTHER ->
                    NotifyLoop(a, idx + 1, slackArgsOffset, slackAttachments)

\* what PostMessageContext is given and what Notify returns; postErr is the
\* outcome of the Slack client
Posted(channel, format, nonSlackArgs, slackAttachments, postErr) ==
    [channel     |-> channel,
     text        |-> [format |-> format, a |-> nonSlackArgs],
     attachments |-> slackAttachments,
     err         |-> postErr]

Notify_allPlainArgs(channel, format, a, postErr) ==
    LET r == NotifyLoop(a, 0, 0 - 1, <<>>)
        nonSlackArgs == SelectSeq(a, LAMBDA x : x.kind \notin {"Attachment", "Creator"})
    IN  Posted(channel, format, nonSlackArgs, r.slackAttachments, postErr)

Notify(channel, format, a, postErr) ==
    LET r == NotifyLoop(a, 0, 0 - 1, <<>>)
        nonSlackArgs == IF r.slackArgsOffset > 0 - 1
                        THEN SubSeq(a, 1, r.slackArgsOffset)
                        ELSE a
    IN  Posted(channel, format, nonSlackArgs, r.slackAttachments, postErr)

----------------------------------------------------------------------------
(* State machine *)

Init ==
    /\ fn = "idle"
    /\ args = <<>>
    /\ ret = <<>>

CallIsValid ==
    /\ fn = "idle"
    /\ \E w \in WebSocketOpEvent :
        /\ fn' = "IsValid"
        /\ args' = w
        /\ ret' = IsValid(w)

CallGenTopic ==
    /\ fn = "idle"
    /\ \E in \in SeqsUpTo(PartValues, MaxParts) :
        /\ fn' = "genTopic"
        /\ args' = in
        /\ ret' = genTopic(in)

CallGetTopicType ==
    /\ fn = "idle"
    /\ \E topic \in Topics :
        /\ fn' = "getTopicType"
        /\ args' = topic
        /\ ret' = getTopicType(topic)

CallGetSymbolFromTopic ==
    /\ fn = "idle"
    /\ \E topic \in Topics :
        /\ fn' = "getSymbolFromTopic"
        /\ args' = topic
        /\ ret' = getSymbolFromTopic(topic)

CallIsOp ==
    /\ fn = "idle"
    /\ \E w \in WsEvent :
        /\ fn' = "IsOp"
        /\ args' = w
        /\ ret' = IsOp(w)

CallIsTopic ==
    /\ fn = "idle"
    /\ \E w \in WsEvent :
        /\ fn' = "IsTopic"
        /\ args' = w
        /\ ret' = IsTopic(w)

CallParseWebSocketEvent ==
    /\ fn = "idle"
    /\ \E frame \in RawFrame :
        /\ fn' = "parseWebSocketEvent"
        /\ args' = frame
        /\ ret' = parseWebSocketEvent(frame)

CallOrderBook ==
    /\ fn = "idle"
    /\ \E e \in BookEvent :
        /\ fn' = "OrderBook"
        /\ args' = e
        /\ ret' = OrderBook(e)

CallToGlobalKLine ==
    /\ fn = "idle"
    /\ \E k \in KLine, symbol \in {"BTCUSDT", "ETHUSDT"} :
        /\ fn' = "toGlobalKLine"
        /\ args' = [k |-> k, symbol |-> symbol]
        /\ ret' = toGlobalKLine(k, symbol)

CallNotify ==
    /\ fn = "idle"
    /\ \E a \in SeqsUpTo(ArgValues, MaxArgs), postErr \in {ErrNil, "slack error"} :
        /\ fn' = "Notify"
        /\ args' = [channel |-> "#dev", format |-> "%v %v", a |-> a]
        /\ ret' = Notify("#dev", "%v %v", a, postErr)

\* the caller is done with the result and the frame is discarded
Return ==
    /\ fn # "idle"
    /\ fn' = "idle"
    /\ args' = <<>>
    /\ ret' = <<>>

Next ==
    \/ CallIsValid
    \/ CallGenTopic
    \/ CallGetTopicType
    \/ CallGetSymbolFromTopic
    \/ CallIsOp
    \/ CallIsTopic
    \/ CallParseWebSocketEvent
    \/ CallOrderBook
    \/ CallToGlobalKLine
    \/ CallNotify
    \/ Return

Spec == Init /\ [][Next]_vars

----------------------------------------------------------------------------
(* Properties *)

\* C1: for all four combinations of the op-variant and the topic-variant
\* being present or absent, IsOp() is true exactly when the op-variant is
\* present and the topic-variant absent, IsTopic() exactly when the
\* topic-variant is present and the op-variant absent, and the two are
\* never both true of the same envelope.
IsOpIsTopicExact ==
    fn \in {"IsOp", "IsTopic"} =>
        LET opPresent == Len(args.WebSocketOpEvent) = 1
            topicPresent == Len(args.WebSocketTopicEvent) = 1
        IN  /\ fn = "IsOp" => (ret <=> (opPresent /\ ~topicPresent))
            /\ fn = "IsTopic" => (ret <=> (topicPresent /\ ~opPresent))
            /\ ~(IsOp(args) /\ IsTopic(args))

IsOpOnBothPresent ==
    /\ fn = "IsOp"
    /\ Len(args.WebSocketOpEvent) = 1
    /\ Len(args.WebSocketTopicEvent) = 1
    /\ ret = FALSE

\* C2: decoding a raw frame fails with the malformed-envelope error and
\* hands out no envelope whenever neither or both variants are populated;
\* every envelope handed out has exactly one variant populated and exactly
\* one of IsOp()/IsTopic() true.
DecodeExactlyOneVariant ==
    fn = "parseWebSocketEvent" =>
        LET populated == Len(args.opShape) + Len(args.topicShape) IN
        /\ populated # 1 => (ret.err = ErrMalformedEnvelope /\ ret.event = Nil)
        /\ ret.event # Nil =>
            LET e == ret.event[1] IN
            /\ ret.err = ErrNil
            /\ Len(e.WebSocketOpEvent) + Len(e.WebSocketTopicEvent) = 1
            /\ IsOp(e) # IsTopic(e)

DecodeRejectsBothPopulated ==
    /\ fn = "parseWebSocketEvent"
    /\ Len(args.opShape) = 1
    /\ Len(args.topicShape) = 1
    /\ ret.err = ErrMalformedEnvelope
    /\ ret.event = Nil

\* C3: IsValid with op = ping returns no error iff success is true and
\* retMsg is "pong"; with op = auth iff success is true and retMsg is empty;
\* with an op outside {ping, pong, auth, subscribe} it always returns an
\* error.
IsValidPingAuthOther ==
    fn = "IsValid" =>
        /\ args.Op = "ping" => (ret = ErrNil <=> (args.Success /\ args.RetMsg = "pong"))
        /\ args.Op = "auth" => (ret = ErrNil <=> (args.Success /\ args.RetMsg = ""))
        /\ args.Op \notin {"ping", "pong", "auth", "subscribe"} => ret # ErrNil

IsValidPingWrongRetMsg ==
    /\ fn = "IsValid"
    /\ args.Op = "ping"
    /\ args.Success
    /\ args.RetMsg = "wrong"
    /\ ret # ErrNil

\* C4: IsValid with op = subscribe returns no error iff success is true,
\* whatever retMsg is; with op = pong it returns no error for every success
\* and retMsg.
IsValidSubscribePong ==
    fn = "IsValid" =>
        /\ args.Op = "subscribe" => (ret = ErrNil <=> args.Success)
        /\ args.Op = "pong" => ret = ErrNil

IsValidSubscribeOddRetMsg ==
    /\ fn = "IsValid"
    /\ args.Op = "subscribe"
    /\ args.Success
    /\ args.RetMsg = "wrong"
    /\ ret = ErrNil

\* positions of the separator in a topic
SepPositions(topic) == {i \in 1..Len(topic) : topic[i] = topicSeparator}

\* C5: getSymbolFromTopic succeeds iff the topic has exactly 3 segments
\* (2 separators) and then returns the third segment; for any other
\* segment count it returns an error and an empty symbol.
SymbolFromTopicExactly3 ==
    fn = "getSymbolFromTopic" =>
        LET seps == SepPositions(args) IN
        IF Cardinality(seps) + 1 = 3
        THEN LET last == CHOOSE i \in seps : \A j \in seps : j <= i IN
             /\ ret.err = ErrNil
             /\ ret.symbol = SubSeq(args, last + 1, Len(args))
        ELSE /\ ret.err # ErrNil
             /\ ret.symbol = <<>>

SymbolFromTopicFourSegments ==
    /\ fn = "getSymbolFromTopic"
    /\ Cardinality(SepPositions(args)) = 3
    /\ ret.err # ErrNil
    /\ ret.symbol = <<>>

\* C6: getTopicType returns the part of the topic before its first
\* separator, the whole topic when it has none, and the empty type for the
\* empty topic.
TopicTypeIsFirstSegment ==
    fn = "getTopicType" =>
        /\ Len(ret) <= Len(args)
        /\ ret = SubSeq(args, 1, Len(ret))
        /\ SepPositions(ret) = {}
        /\ Len(ret) < Len(args) => args[Len(ret) + 1] = topicSeparator
        /\ args = <<>> => ret = <<>>

TopicTypeOfMultiSegment ==
    /\ fn = "getTopicType"
    /\ Cardinality(SepPositions(args)) = 2
    /\ Len(ret) >= 1
    /\ Len(ret) < Len(args)

\* C7: for three parts whose text holds no separator, genTopic is the
\* three texts joined by ".", getTopicType of it is the first text and
\* getSymbolFromTopic of it succeeds with the third text.
TopicRoundTrip ==
    (/\ fn = "genTopic"
     /\ Len(args) = 3
     /\ \A k \in 1..3 : SepPositions(SprintfV(args[k])) = {}) =>
        LET type == SprintfV(args[1])
            param == SprintfV(args[2])
            symbol == SprintfV(args[3])
        IN  /\ ret = type \o <<".">> \o param \o <<".">> \o symbol
            /\ getTopicType(ret) = type
            /\ getSymbolFromTopic(ret) = [symbol |-> symbol, err |-> ErrNil]

TopicRoundTripCase ==
    /\ fn = "genTopic"
    /\ Len(args) = 3
    /\ args[1] = [kind |-> "string", val |-> <<"a">>]
    /\ args[2] = [kind |-> "int", val |-> MaxIntArg]
    /\ args[3] = [kind |-> "string", val |-> <<"b">>]
    /\ Len(ret) >= 5

\* C8: toGlobalKLine fails iff the interval code has no entry in the
\* translation table; on failure the returned candle is the zero value, on
\* success it carries the mapped interval, the given symbol and the input's
\* open, close, high, low, volume, turnover and confirmed values.
KLineAllOrNothing ==
    fn = "toGlobalKLine" =>
        LET k == args.k
            mapped == k.Interval \in DOMAIN ToGlobalInterval
        IN  /\ ret.err # ErrNil <=> ~mapped
            /\ ~mapped => ret.kline = ZeroKLine
            /\ mapped =>
                /\ ret.kline.Interval = ToGlobalInterval[k.Interval]
                /\ ret.kline.Symbol = args.symbol
                /\ ret.kline.Open = k.OpenPrice
                /\ ret.kline.Close = k.ClosePrice
                /\ ret.kline.High = k.HighPrice
                /\ ret.kline.Low = k.LowPrice
                /\ ret.kline.Volume = k.Volume
                /\ ret.kline.QuoteVolume = k.Turnover
                /\ ret.kline.Closed = k.Confirm

KLineUnmappedInterval ==
    /\ fn = "toGlobalKLine"
    /\ args.k.Interval = "7"
    /\ args.k.OpenPrice = 1
    /\ args.k.Confirm
    /\ ret.err # ErrNil
    /\ ret.kline.Open = 0
    /\ ret.kline.Symbol = ""

\* C9: OrderBook returns a snapshot whose symbol, bids and asks are the
\* event's, level for level in the same order, also for unsorted sides and
\* duplicate prices, and leaves the event unchanged.
OrderBookVerbatim ==
    fn = "OrderBook" =>
        /\ ret.snapshot.Symbol = args.Symbol
        /\ Len(ret.snapshot.Bids) = Len(args.Bids)
        /\ \A i \in 1..Len(args.Bids) : ret.snapshot.Bids[i] = args.Bids[i]
        /\ Len(ret.snapshot.Asks) = Len(args.Asks)
        /\ \A i \in 1..Len(args.Asks) : ret.snapshot.Asks[i] = args.Asks[i]
        /\ ret.e = args

OrderBookUnsortedDuplicate ==
    /\ fn = "OrderBook"
    /\ Len(args.Bids) = 2
    /\ args.Bids[1].Price < args.Bids[2].Price
    /\ Len(args.Asks) = 2
    /\ args.Asks[1].Price = args.Asks[2].Price
    /\ ret.snapshot.Bids = args.Bids

AttachmentLike(x) == x.kind \in {"Attachment", "Creator"}

\* the attachment an attachment-like argument contributes
AsAttachment(x) == IF x.kind = "Creator" THEN SlackAttachment(x) ELSE x

\* C10: the format arguments of Notify are the arguments strictly before
\* the first attachment-like one (all of them when there is none); the
\* attachments are all attachment-like arguments in argument order; a
\* non-attachment argument after the first attachment-like one is in
\* neither.
NotifyPartition ==
    fn = "Notify" =>
        LET a == args.a
            likes == {i \in 1..Len(a) : AttachmentLike(a[i])}
            first == IF likes = {} THEN Len(a) + 1
                     ELSE CHOOSE i \in likes : \A j \in likes : i <= j
            picked == SelectSeq(a, AttachmentLike)
        IN  /\ Len(ret.text.a) = first - 1
            /\ \A i \in 1..(first - 1) : ret.text.a[i] = a[i]
            /\ Len(ret.attachments) = Len(picked)
            /\ \A i \in 1..Len(picked) : ret.attachments[i] = AsAttachment(picked[i])
            /\ \A i \in 1..Len(a) :
                (i > first /\ ~AttachmentLike(a[i])) =>
                    /\ i > Len(ret.text.a)
                    /\ \A j \in 1..Len(ret.attachments) : ret.attachments[j] # a[i]

NotifyPlainBetweenAttachments ==
    /\ fn = "Notify"
    /\ Len(args.a) = 3
    /\ args.a[1].kind = "Attachment"
    /\ args.a[2].kind = "plain"
    /\ args.a[3].kind = "Creator"
    /\ ret.text.a = <<>>
    /\ Len(ret.attachments) = 2

====
